---- MODULE Spec2Model ----
(***************************************************************************)
(* Model of docker-volume-tools: compose parsing (compose.py), backup      *)
(* creation (backup.py), backup validation and volume restore (restore.py).*)
(*                                                                         *)
(* Strings are tuples of characters; a path is a tuple of components, each *)
(* component a string.  The fixed words of the archive layout ("volumes",  *)
(* "metadata.json", ".", the backup name, the file extensions) are single  *)
(* characters of that alphabet.                                            *)
(***************************************************************************)
EXTENDS Integers, Sequences, FiniteSets, TLC

\* ------------------------------------------------------------------ bounds
MaxMounts == 2
MaxMembers == 3
MaxEntries == 2
MaxSelected == 2

\* --------------------------------------------------------------- alphabet
DOT == <<".">>
VOLUMES == <<"volumes">>
METADATA_JSON == <<"metadata.json">>
NoName == <<>>

\* A path is the tuple of its components; compose files are given by their
\* absolute path.
COMPOSE_YML == <<"docker-compose.yml">>

\* os.path.basename(os.path.dirname(os.path.abspath(compose_path)))
get_project_name(compose_path) == compose_path[Len(compose_path) - 1]

\* The compose file the builds read.
compose_file == << <<"p">>, COMPOSE_YML >>

\* f"{project_name}_volumes_{timestamp}" of create_backup
backup_name == <<"compose_volumes_ts">>

Range(s) == {s[i] : i \in 1..Len(s)}

\* ------------------------------------------------------------ compose.py
\* The logical volume names (sources) the compose documents use.
Sources == {<<"a">>, <<"b">>}

\* The explicit `name:` values a top-level volume entry may carry.
ExplicitNames == {<<"a">>}

\* One mount of a service: short syntax "source:target", or long syntax
\* with type volume / bind.
MountForms == {"short", "long_volume", "long_bind"}

\* The other shapes an entry of a service's `volumes:` list can take: a
\* short string without ':' (an anonymous volume), a long mapping of
\* another type.
OtherForms == {"short_single", "long_tmpfs"}

Mounts == [service : {<<"s">>}, source : Sources, target : {<<"/t">>},
           form : MountForms]

\* A top-level `volumes:` entry: null / {} is name = NoName.
VolumeConfigs == [name : ExplicitNames \cup {NoName}, external : {FALSE}]

\* f"{project_name}_{source}"
DefaultComposeName(project_name, source) == project_name \o <<"_">> \o source

\* A compose_name that is always the prefixed one.
ComposeNameOf_prefixed(project_name, volume_config, source) ==
  DefaultComposeName(project_name, source)

\* volume_config.get('name', f"{project_name}_{source}")
ComposeNameOf(project_name, volume_config, source) ==
  IF volume_config.name # NoName THEN volume_config.name
  ELSE DefaultComposeName(project_name, source)

EmptyConfig == [name |-> NoName, external |-> FALSE]

\* The VolumeInfo one mount yields (parse_compose_file, body of the loop).
VolumeInfoOf(project_name, m, named_volumes) ==
  LET cfg == IF m.source \in DOMAIN named_volumes
             THEN named_volumes[m.source] ELSE EmptyConfig
      named == [name |-> m.source, service |-> m.service, type |-> "named",
                target |-> m.target, is_external |-> cfg.external,
                compose_name |-> ComposeNameOf(project_name, cfg, m.source)]
      bind == [name |-> m.source, service |-> m.service, type |-> "bind",
               target |-> m.target, is_external |-> FALSE, compose_name |-> m.source]
  IN CASE m.form = "short" ->
            IF m.source \in DOMAIN named_volumes THEN named ELSE bind
       [] m.form = "long_volume" -> named
       [] OTHER -> bind

\* A loop body that appends a VolumeInfo for every mount.
Appends_always(m) == TRUE

\* Whether the loop body appends a VolumeInfo for the mount: a short string
\* needs at least two parts, a long mapping the type volume or bind.
Appends(m) == m.form \in MountForms

RECURSIVE ParseMounts(_, _, _)
ParseMounts(project_name, doc, named_volumes) ==
  IF doc = <<>> THEN <<>>
  ELSE (IF Appends(Head(doc))
        THEN <<VolumeInfoOf(project_name, Head(doc), named_volumes)>>
        ELSE <<>>)
       \o ParseMounts(project_name, Tail(doc), named_volumes)

parse_compose_file(compose_path, doc, named_volumes) ==
  ParseMounts(get_project_name(compose_path), doc, named_volumes)

\* ------------------------------------------------- runtime and artifacts
\* A file tree is the set of relative paths of the files of a volume.  The
\* volume of a compose project holds one file, named after the volume.
ProjectTree(n) == {<<n \o <<".dat">>>>}

NoVolume == [exists |-> FALSE, tree |-> {}]

\* An archive file: whether it exists and is complete, whether it is
\* gzip-compressed, the names of its members in archive order, the content
\* of its metadata.json member, and the nested per-volume tar files
\* (member path and captured tree).
NoMetadata == [has_volumes |-> FALSE, volumes |-> <<>>]

NoArchive == [exists |-> FALSE, complete |-> FALSE, gz |-> FALSE,
              members |-> <<>>, json |-> NoMetadata, blobs |-> {}]

NoError == [type |-> "none", msg |-> "none", vol |-> NoName, missing |-> {}]

NoPending == [step |-> "none"]

\* The `list` command has not run.
NotListed == [done |-> FALSE, volumes |-> <<>>]

\* The functions are called directly, not through a command.
NoCommand == [command |-> "none", exited |-> FALSE, exit_code |-> 0]

\* A set of paths as a sequence, in some fixed order.
RECURSIVE SetToSeq(_)
SetToSeq(S) ==
  IF S = {} THEN <<>>
  ELSE LET x == CHOOSE y \in S : TRUE IN <<x>> \o SetToSeq(S \ {x})

VARIABLES
  compose,            \* the compose file: [path, doc, volumes]
  listed,             \* result of the `list` command: [done, volumes]
  cli,                \* the command line: [command, exited, exit_code]
  volumes_to_backup,  \* requested logical names ({} = None)
  ssh_target,         \* TRUE for a remote destination
  compress,
  bpc,                \* position of create_backup
  named_volumes,      \* create_backup: filtered, deduplicated declarations
  metadata,           \* create_backup: metadata dict
  bi,                 \* create_backup: loop index over named_volumes
  backup_dir,         \* staging directory output_dir/backup_name
  final_archive,      \* output_dir/backup_name.tar[.gz]
  remote_file,        \* ssh_path/backup_name.tar[.gz] on the remote host
  berr,               \* error raised by create_backup
  captured,           \* captures started, in order: [vol, ok]
  rtVolumes,          \* container runtime: volumes by name
  helpers,            \* container runtime: existing helper containers
  validated,          \* result of validate_backup on the produced archive
  archive,            \* restore: the file at backup_path
  selection,          \* restore_backup: `volumes`, the names asked for
  force,
  rpc,                \* position of restore_backup / restore_volume
  volumes_to_restore, \* restore_backup: metadata entries to restore
  ri,                 \* restore_backup: loop index
  staged,             \* restore_volume: content of temp_volume_dir
  pending,            \* restore_volume: exception in flight
  rerr,               \* error raised to the caller of restore
  rtlog               \* runtime operations of the restore, in order

bvars == <<compose, listed, cli, volumes_to_backup, ssh_target, compress, bpc,
           named_volumes, metadata, bi, backup_dir, final_archive,
           remote_file, berr, captured, validated>>
rtvars == <<rtVolumes, helpers>>
rsvars == <<archive, selection, force, rpc, volumes_to_restore, ri, staged,
            pending, rerr, rtlog>>
vars == <<bvars, rtvars, rsvars>>

\* ------------------------------------------------------------- backup.py
\* volumes = [v for v in volumes if v.name in volumes_to_backup]
FilterVolumes(volumes, wanted) ==
  IF wanted # {} THEN SelectSeq(volumes, LAMBDA v : v.name \in wanted)
  ELSE volumes

\* A volume_dict that keeps the last named occurrence of each name.
RECURSIVE DedupNamed_last(_, _)
DedupNamed_last(volumes, seen) ==
  IF volumes = <<>> THEN <<>>
  ELSE LET v == Head(volumes) IN
       IF /\ v.type = "named"
          /\ \A w \in Range(Tail(volumes)) : ~(w.type = "named" /\ w.name = v.name)
       THEN <<v>> \o DedupNamed_last(Tail(volumes), seen)
       ELSE DedupNamed_last(Tail(volumes), seen)

\* volume_dict: first named occurrence of each name, in insertion order
RECURSIVE DedupNamed(_, _)
DedupNamed(volumes, seen) ==
  IF volumes = <<>> THEN <<>>
  ELSE LET v == Head(volumes) IN
       IF v.type = "named" /\ v.name \notin seen
       THEN <<v>> \o DedupNamed(Tail(volumes), seen \cup {v.name})
       ELSE DedupNamed(Tail(volumes), seen)

\* metadata['volumes']
MetadataOf(named) ==
  [has_volumes |-> TRUE,
   volumes |-> [i \in 1..Len(named) |->
                  [name |-> named[i].compose_name,
                   service |-> named[i].service,
                   target |-> named[i].target,
                   is_external |-> named[i].is_external]]]

\* f"{volume.name}.{'tar.gz' if compress else 'tar'}"
TarName(volume, gz) == volume.name \o (IF gz THEN <<".tar.gz">> ELSE <<".tar">>)

BackupError(msg, vol) ==
  [type |-> "BackupError", msg |-> msg, vol |-> vol, missing |-> {}]

NoDir == [exists |-> FALSE, captures |-> {}, metadata |-> FALSE]

\* ------------------------------------------------------------ restore.py
\* name.startswith(prefix) for a prefix that ends in "/": the path has the
\* components of the prefix and at least one more.
StartsWith(path, prefix) ==
  /\ Len(path) > Len(prefix)
  /\ SubSeq(path, 1, Len(prefix)) = prefix

ValueError(msg, vol) ==
  [type |-> "ValueError", msg |-> msg, vol |-> vol, missing |-> {}]

\* The members of the archive below volumes/<name>/ or ./volumes/<name>/
VolumeMembers(members, name) ==
  SelectSeq(members, LAMBDA m : \/ StartsWith(m, <<VOLUMES, name>>)
                                \/ StartsWith(m, <<DOT, VOLUMES, name>>))

\* The last metadata volume without members, 0 when there is none.
RECURSIVE FirstMissing_last(_, _, _)
FirstMissing_last(members, volumes, i) ==
  IF i > Len(volumes) THEN 0
  ELSE LET later == FirstMissing_last(members, volumes, i + 1)
       IN IF later # 0 THEN later
          ELSE IF VolumeMembers(members, volumes[i].name) = <<>> THEN i
          ELSE 0

\* The first metadata volume without members, 0 when there is none.
RECURSIVE FirstMissing(_, _, _)
FirstMissing(members, volumes, i) ==
  IF i > Len(volumes) THEN 0
  ELSE IF VolumeMembers(members, volumes[i].name) = <<>> THEN i
  ELSE FirstMissing(members, volumes, i + 1)

\* validate_backup: the error raised, or NoError and the metadata returned.
validate_backup(a) ==
  LET metadata_members ==
        SelectSeq(a.members, LAMBDA m : m = <<METADATA_JSON>>
                                        \/ m = <<DOT, METADATA_JSON>>)
      volume_files ==
        SelectSeq(a.members, LAMBDA m : \/ StartsWith(m, <<VOLUMES>>)
                                        \/ StartsWith(m, <<DOT, VOLUMES>>))
      missing == FirstMissing(a.members, a.json.volumes, 1)
      fail(msg, vol) == [error |-> ValueError(msg, vol), metadata |-> NoMetadata]
  IN CASE ~a.exists -> fail("Backup file not found", NoName)
       [] ~a.gz \/ ~a.complete -> fail("Invalid backup format", NoName)
       [] metadata_members = <<>> ->
            fail("Metadata file not found in backup", NoName)
       [] ~a.json.has_volumes ->
            fail("Invalid metadata: missing volumes section", NoName)
       [] volume_files = <<>> -> fail("No volume files found in backup", NoName)
       [] missing # 0 ->
            fail("Volume directory not found", a.json.volumes[missing].name)
       [] OTHER -> [error |-> NoError, metadata |-> a.json]

NotValidated == [done |-> FALSE, error |-> NoError, metadata |-> NoMetadata]

\* ----------------------------------------------------- create_backup steps
\* Lines 36-99 and 213-218: parse, filter, deduplicate, build the metadata,
\* then either take the SSH branch or create the staging directory.
BuildStart ==
  /\ bpc = "start"
  /\ LET parsed == parse_compose_file(compose.path, compose.doc, compose.volumes)
         volumes == FilterVolumes(parsed, volumes_to_backup)
         named == DedupNamed(volumes, {})
     IN IF volumes = <<>> THEN
          /\ berr' = BackupError("No volumes to backup", NoName)
          /\ bpc' = "failed"
          /\ UNCHANGED <<named_volumes, metadata, backup_dir>>
        ELSE IF named = <<>> THEN
          /\ berr' = BackupError("No named volumes to backup", NoName)
          /\ bpc' = "failed"
          /\ UNCHANGED <<named_volumes, metadata, backup_dir>>
        ELSE
          /\ named_volumes' = named
          /\ metadata' = MetadataOf(named)
          /\ IF ssh_target
             THEN bpc' = "ssh_run" /\ UNCHANGED backup_dir
             ELSE /\ bpc' = "capture"
                  /\ backup_dir' = [NoDir EXCEPT !.exists = TRUE]
          /\ UNCHANGED berr
  /\ UNCHANGED <<compose, volumes_to_backup, ssh_target, compress, bi,
                 final_archive, remote_file, captured, validated, rtvars>>
  /\ UNCHANGED <<listed, cli, rsvars>>

\* Line 238: BackupError(f"Failed to backup volume {volume.compose_name}")
CaptureError_logical(volume) ==
  BackupError("Failed to backup volume", volume.name)

CaptureError(volume) ==
  BackupError("Failed to backup volume", volume.compose_name)

\* Lines 221-238: one iteration of the local capture loop.  The helper
\* container runs tar and is removed by the runtime (remove=True); a failed
\* run may leave a partial tar file in the staging directory.
CaptureVolume ==
  /\ bpc = "capture"
  /\ bi <= Len(named_volumes)
  /\ \E ok \in BOOLEAN, partial \in BOOLEAN :
       LET volume == named_volumes[bi]
           file == [name |-> TarName(volume, compress),
                    tree |-> rtVolumes[volume.compose_name].tree,
                    complete |-> TRUE]
           torn == [file EXCEPT !.complete = FALSE, !.tree = {}]
       IN /\ captured' = Append(captured,
                                [vol |-> volume.compose_name, ok |-> ok])
          /\ IF ok THEN
               /\ partial = FALSE
               /\ backup_dir' = [backup_dir EXCEPT !.captures = @ \cup {file}]
               /\ bi' = bi + 1
               /\ UNCHANGED <<bpc, berr>>
             ELSE
               /\ backup_dir' = [backup_dir EXCEPT !.captures =
                                   IF partial THEN @ \cup {torn} ELSE @]
               /\ berr' = CaptureError(volume)
               /\ bpc' = "failed"
               /\ UNCHANGED bi
  /\ UNCHANGED <<compose, volumes_to_backup, ssh_target, compress,
                 named_volumes, metadata, final_archive, remote_file,
                 validated, rtvars>>
  /\ UNCHANGED <<listed, cli, rsvars>>

\* Line 241: os.system("cp metadata_file backup_dir/metadata.json"); the
\* exit status is not looked at.
CopyMetadata ==
  /\ bpc = "capture"
  /\ bi > Len(named_volumes)
  /\ \E ok \in BOOLEAN :
       backup_dir' = [backup_dir EXCEPT !.metadata = ok]
  /\ bpc' = "archive"
  /\ UNCHANGED <<compose, volumes_to_backup, ssh_target, compress,
                 named_volumes, metadata, bi, final_archive, remote_file,
                 berr, captured, validated, rtvars>>
  /\ UNCHANGED <<listed, cli, rsvars>>

\* The archive tar makes of output_dir/backup_name: the directory, its
\* metadata.json and the per-volume tar files.
LocalArchive(dir, meta, gz) ==
  LET files == SetToSeq({f.name : f \in dir.captures})
  IN [exists |-> TRUE, complete |-> TRUE, gz |-> gz,
      members |-> <<<<backup_name>>>>
                  \o (IF dir.metadata THEN <<<<backup_name, METADATA_JSON>>>>
                      ELSE <<>>)
                  \o [i \in 1..Len(files) |-> <<backup_name, files[i]>>],
      json |-> IF dir.metadata THEN meta ELSE NoMetadata,
      blobs |-> {[path |-> <<backup_name, f.name>>, tree |-> f.tree] :
                   f \in dir.captures}]

\* Lines 244-246: os.system("tar czf final_archive -C output_dir
\* backup_name"); the exit status is not looked at.
CreateFinalArchive ==
  /\ bpc = "archive"
  /\ \E ok \in BOOLEAN, partial \in BOOLEAN :
       LET full == LocalArchive(backup_dir, metadata, compress)
       IN final_archive' =
            IF ok THEN full
            ELSE IF partial THEN [full EXCEPT !.complete = FALSE]
            ELSE NoArchive
  /\ bpc' = "cleanup"
  /\ UNCHANGED <<compose, volumes_to_backup, ssh_target, compress,
                 named_volumes, metadata, bi, backup_dir, remote_file, berr,
                 captured, validated, rtvars>>
  /\ UNCHANGED <<listed, cli, rsvars>>

\* Lines 249-251: os.system("rm -rf backup_dir"); return final_archive.
RemoveStagingAndReturn ==
  /\ bpc = "cleanup"
  /\ backup_dir' = NoDir
  /\ bpc' = "done"
  /\ UNCHANGED <<compose, volumes_to_backup, ssh_target, compress,
                 named_volumes, metadata, bi, final_archive, remote_file,
                 berr, captured, validated, rtvars>>
  /\ UNCHANGED <<listed, cli, rsvars>>

\* The helper container of the SSH branch (lines 131-137): it mounts every
\* named volume of the run.
BackupHelper == [id |-> "backup",
                 mounts |-> {v.compose_name : v \in Range(named_volumes)}]

SshError(vol) == BackupError("Failed to transfer backup via SSH", vol)

\* Lines 129-137 (and 205-211 when the run fails): client.containers.run.
\* When it raises, `container` is unbound and the cleanup of the finally
\* block does nothing; the runtime may have created the container already.
SshRunContainer ==
  /\ bpc = "ssh_run"
  /\ \E ok \in BOOLEAN, left \in BOOLEAN :
       IF ok THEN
         /\ left = TRUE
         /\ helpers' = helpers \cup {BackupHelper}
         /\ bpc' = "ssh_prepare"
         /\ UNCHANGED berr
       ELSE
         /\ helpers' = IF left THEN helpers \cup {BackupHelper} ELSE helpers
         /\ berr' = SshError(NoName)
         /\ bpc' = "failed"
  /\ UNCHANGED <<compose, volumes_to_backup, ssh_target, compress,
                 named_volumes, metadata, bi, backup_dir, final_archive,
                 remote_file, captured, validated, rtVolumes>>
  /\ UNCHANGED <<listed, cli, rsvars>>

PrepareSteps == {"apk add", "mkdir remote", "mkdir /tmp_backup",
                 "cp /metadata.json", "mkdir /tmp_backup/volumes"}

\* Lines 139-168: the exec_run calls before the symlink loop, each raising
\* BackupError on a non-zero exit code.
SshPrepare ==
  /\ bpc = "ssh_prepare"
  /\ \E failed \in PrepareSteps \cup {"none"} :
       IF failed = "none"
       THEN bpc' = "ssh_symlink" /\ UNCHANGED berr
       ELSE bpc' = "ssh_finally" /\ berr' = SshError(NoName)
  /\ UNCHANGED <<compose, volumes_to_backup, ssh_target, compress,
                 named_volumes, metadata, bi, backup_dir, final_archive,
                 remote_file, captured, validated, rtvars>>
  /\ UNCHANGED <<listed, cli, rsvars>>

\* Lines 171-175: ln -s /volumes/{v.name} /tmp_backup/volumes/{v.name}
SshSymlink ==
  /\ bpc = "ssh_symlink"
  /\ bi <= Len(named_volumes)
  /\ \E ok \in BOOLEAN :
       /\ captured' = Append(captured, [vol |-> named_volumes[bi].compose_name,
                                        ok |-> ok])
       /\ IF ok
          THEN bi' = bi + 1 /\ UNCHANGED <<bpc, berr>>
          ELSE /\ bpc' = "ssh_finally"
               /\ berr' = SshError(named_volumes[bi].name)
               /\ UNCHANGED bi
  /\ UNCHANGED <<compose, volumes_to_backup, ssh_target, compress,
                 named_volumes, metadata, backup_dir, final_archive,
                 remote_file, validated, rtvars>>
  /\ UNCHANGED <<listed, cli, rsvars>>

\* The members tar writes for /tmp_backup/volumes/{v.name}: the directory
\* and the files of the volume mounted at /volumes/{v.name}.
RECURSIVE SymlinkedMembers(_, _)
SymlinkedMembers(named, i) ==
  IF i > Len(named) THEN <<>>
  ELSE LET files == SetToSeq(rtVolumes[named[i].compose_name].tree)
       IN <<<<DOT, VOLUMES, named[i].name>>>>
          \o [k \in 1..Len(files) |-> <<DOT, VOLUMES, named[i].name>> \o files[k]]
          \o SymlinkedMembers(named, i + 1)

\* The stream of "cd /tmp_backup && tar -hcf - ." (lines 179-181)
RemoteArchive(named, meta, gz) ==
  [exists |-> TRUE, complete |-> TRUE, gz |-> gz,
   members |-> <<<<DOT>>, <<DOT, METADATA_JSON>>, <<DOT, VOLUMES>>>>
               \o SymlinkedMembers(named, 1),
   json |-> meta, blobs |-> {}]

\* Lines 179-200: tar | [gzip |] ssh 'cat > remote_file'.  A failed
\* transfer may have created the remote file already.
SshTransfer ==
  /\ bpc = "ssh_symlink"
  /\ bi > Len(named_volumes)
  /\ \E ok \in BOOLEAN, partial \in BOOLEAN :
       LET full == RemoteArchive(named_volumes, metadata, compress) IN
       IF ok THEN
         /\ partial = FALSE
         /\ remote_file' = full
         /\ UNCHANGED berr
       ELSE
         /\ remote_file' = IF partial THEN [full EXCEPT !.complete = FALSE]
                           ELSE NoArchive
         /\ berr' = SshError(NoName)
  /\ bpc' = "ssh_finally"
  /\ UNCHANGED <<compose, volumes_to_backup, ssh_target, compress,
                 named_volumes, metadata, bi, backup_dir, final_archive,
                 captured, validated, rtvars>>
  /\ UNCHANGED <<listed, cli, rsvars>>

\* Lines 205-211: container.stop(); container.remove() with every
\* exception swallowed.
SshFinally ==
  /\ bpc = "ssh_finally"
  /\ \E torn_down \in BOOLEAN :
       helpers' = IF torn_down THEN helpers \ {BackupHelper} ELSE helpers
  /\ bpc' = IF berr = NoError THEN "done" ELSE "failed"
  /\ UNCHANGED <<compose, volumes_to_backup, ssh_target, compress,
                 named_volumes, metadata, bi, backup_dir, final_archive,
                 remote_file, berr, captured, validated, rtVolumes>>
  /\ UNCHANGED <<listed, cli, rsvars>>

\* The artifact create_backup returns the location of.
Produced == IF ssh_target THEN remote_file ELSE final_archive

\* validate_backup applied to the artifact of a build that returned.
ValidateProduced ==
  /\ bpc = "done"
  /\ ~validated.done
  /\ validated' = [done |-> TRUE] @@ validate_backup(Produced)
  /\ UNCHANGED <<compose, volumes_to_backup, ssh_target, compress, bpc,
                 named_volumes, metadata, bi, backup_dir, final_archive,
                 remote_file, berr, captured, rtvars>>
  /\ UNCHANGED <<listed, cli, rsvars>>

\* ------------------------------------------------------ build: the inputs
RECURSIVE SeqsUpTo(_, _)
SeqsUpTo(S, n) ==
  IF n = 0 THEN {<<>>}
  ELSE LET shorter == SeqsUpTo(S, n - 1)
       IN shorter \cup {Append(s, x) : s \in shorter, x \in S}

Docs == SeqsUpTo(Mounts, MaxMounts) \ {<<>>}

\* Top-level volumes sections in which no two entries name the same
\* runtime volume.
TopLevels ==
  {t \in UNION {[D -> VolumeConfigs] : D \in SUBSET Sources} :
     \A s1, s2 \in DOMAIN t :
       s1 # s2 => ComposeNameOf(get_project_name(compose_file), t[s1], s1)
                  # ComposeNameOf(get_project_name(compose_file), t[s2], s2)}

\* The runtime names a compose document can resolve to.
ProjectNames ==
  ExplicitNames
    \cup {DefaultComposeName(get_project_name(compose_file), s) : s \in Sources}

\* The volume names of the archives given to restore, and a name no
\* archive has.
RestoreNames == {<<"v">>, <<"W">>}
AbsentName == <<"z">>

\* The names of the volumes of the runtime.
RuntimeNames == ProjectNames \cup RestoreNames

\* The restore variables while only a build runs.
RestoreIdle ==
  /\ archive = NoArchive
  /\ selection = <<>>
  /\ force = FALSE
  /\ rpc = "idle"
  /\ volumes_to_restore = <<>>
  /\ ri = 1
  /\ staged = {}
  /\ pending = NoPending
  /\ rerr = NoError
  /\ rtlog = <<>>

NamedComposeNames(c) ==
  {v.compose_name :
     v \in {w \in Range(parse_compose_file(c.path, c.doc, c.volumes)) :
              w.type = "named"}}

\* The values of volumes_to_backup: None, or one logical name.
Wanted == {{}, {<<"a">>}}

BuildInit ==
  /\ compose \in [path : {compose_file}, doc : Docs, volumes : TopLevels]
  /\ listed = NotListed
  /\ cli = NoCommand
  /\ volumes_to_backup \in Wanted
  /\ ssh_target \in BOOLEAN
  /\ compress \in BOOLEAN
  /\ bpc = "start"
  /\ named_volumes = <<>>
  /\ metadata = NoMetadata
  /\ bi = 1
  /\ backup_dir = NoDir
  /\ final_archive = NoArchive
  /\ remote_file = NoArchive
  /\ berr = NoError
  /\ captured = <<>>
  /\ validated = NotValidated
  /\ helpers = {}
  \* the volumes of the project exist in the runtime
  /\ rtVolumes = [n \in RuntimeNames |->
                    IF n \in NamedComposeNames(compose)
                    THEN [exists |-> TRUE, tree |-> ProjectTree(n)]
                    ELSE NoVolume]
  /\ RestoreIdle

BuildNext ==
  \/ BuildStart
  \/ CaptureVolume
  \/ CopyMetadata
  \/ CreateFinalArchive
  \/ RemoveStagingAndReturn
  \/ SshRunContainer
  \/ SshPrepare
  \/ SshSymlink
  \/ SshTransfer
  \/ SshFinally
  \/ ValidateProduced

BuildSpec == BuildInit /\ [][BuildNext]_vars


\* ------------------------------------------------- restore.py: the prefix
\* str.replace(a, b), str.lower() and removal of a character
Replace(str, from, to) ==
  [i \in 1..Len(str) |-> IF str[i] = from THEN to ELSE str[i]]

LowerChar(c) ==
  CASE c = "A" -> "a" [] c = "B" -> "b" [] c = "V" -> "v" [] c = "W" -> "w"
    [] OTHER -> c

Lower(str) == [i \in 1..Len(str) |-> LowerChar(str[i])]

Stripped(str) == SelectSeq(str, LAMBDA c : c # "-" /\ c # "_")

\* Lines 137-149: possible_prefixes
possible_prefixes(volume_name) ==
  << <<VOLUMES, volume_name>>,
     <<DOT, VOLUMES, volume_name>>,
     <<VOLUMES, Replace(volume_name, "-", "_")>>,
     <<DOT, VOLUMES, Replace(volume_name, "-", "_")>>,
     <<VOLUMES, Lower(volume_name)>>,
     <<DOT, VOLUMES, Lower(volume_name)>>,
     <<VOLUMES, Stripped(volume_name)>>,
     <<DOT, VOLUMES, Stripped(volume_name)>> >>

\* Lines 153-157: the first prefix of the list the member starts with, or
\* the prefix unchanged.
PrefixOfMember(member, possible, volume_prefix) ==
  LET hits == {k \in 1..Len(possible) : StartsWith(member, possible[k])}
  IN IF hits = {} THEN volume_prefix
     ELSE possible[CHOOSE k \in hits : \A j \in hits : k <= j]

\* Lines 152-159: the loop over the members; it is left as soon as
\* volume_prefix is a non-empty string.
RECURSIVE SearchPrefix(_, _, _, _)
SearchPrefix(members, i, possible, volume_prefix) ==
  IF i > Len(members) THEN volume_prefix
  ELSE LET found == PrefixOfMember(members[i], possible, volume_prefix)
       IN IF found # <<>> THEN found
          ELSE SearchPrefix(members, i + 1, possible, found)

\* Lines 164-172: volume_dirs, parts[1] of the members under volumes/
VolumeDirs(members) ==
  {m[2] : m \in {x \in Range(members) :
                   /\ StartsWith(x, <<VOLUMES>>) \/ StartsWith(x, <<DOT, VOLUMES>>)
                   /\ Len(x) >= 3}}

\* Lines 177-184: a directory whose name is similar to the volume name
SimilarDirs(members, volume_name) ==
  {d \in VolumeDirs(members) :
     \/ Lower(d) = Lower(volume_name)
     \/ Replace(d, "-", "_") = Replace(volume_name, "-", "_")
     \/ Stripped(d) = Stripped(volume_name)}

\* Lines 127-187: the prefix the extraction loop uses, <<>> when the
\* "Volume directory not found" error is raised.
ResolvePrefix(members, volume_name, archive_path) ==
  LET volume_prefix == <<VOLUMES, archive_path>>
      volume_prefix_with_dot == <<DOT, VOLUMES, archive_path>>
      volume_members ==
        SelectSeq(members, LAMBDA m : \/ StartsWith(m, volume_prefix)
                                      \/ StartsWith(m, volume_prefix_with_dot))
      searched == SearchPrefix(members, 1, possible_prefixes(volume_name),
                               volume_prefix)
      similar == SimilarDirs(members, volume_name)
  IN IF volume_members # <<>> THEN volume_prefix
     ELSE IF searched # <<>> THEN searched
     ELSE IF similar # {} THEN <<VOLUMES, CHOOSE d \in similar : TRUE>>
     ELSE <<>>

\* Lines 190-194: the members extracted into temp_volume_dir, prefix
\* stripped.
Extracted(members, volume_prefix) ==
  {SubSeq(m, Len(volume_prefix) + 1, Len(m)) :
     m \in {x \in Range(members) : StartsWith(x, volume_prefix)}}

\* volume_metadata.get("archive_path", volume_name)
ArchivePathOf(volume_metadata) ==
  IF "archive_path" \in DOMAIN volume_metadata
  THEN volume_metadata.archive_path ELSE volume_metadata.name

\* --------------------------------------------------- restore.py: runtime
\* The runtime refuses to remove a volume a container mounts.
InUse(name) == \E h \in helpers : name \in h.mounts

DockerError(msg, vol) ==
  [type |-> "docker.errors.APIError", msg |-> msg, vol |-> vol, missing |-> {}]

\* Line 242: ValueError(f"Volumes not found in backup: {', '.join(missing)}")
SelectionError(missing) ==
  [type |-> "ValueError", msg |-> "Volumes not found in backup",
   vol |-> NoName, missing |-> missing]

RestoreHelper(name) == [id |-> "restore", mounts |-> {name}]

Event(op, vol) == [op |-> op, vol |-> vol]

\* A loop that takes the volumes from the last to the first.
CurrentVolume_reversed ==
  volumes_to_restore[Len(volumes_to_restore) - ri + 1]

\* The volume restore_volume is working on.
CurrentVolume == volumes_to_restore[ri]

\* ----------------------------------------------------- restore_backup
\* Lines 236-239: the metadata entries whose name is among those asked for
FilterEntries(entries, names) ==
  SelectSeq(entries, LAMBDA v : v.name \in Range(names))

\* Line 240: the test that raises the "Volumes not found" error
SelectionRejected(entries, names) ==
  Len(FilterEntries(entries, names)) # Len(names)

\* Lines 231-242: validate, then filter the volumes to restore.
RestoreBackupStart ==
  /\ rpc = "start"
  /\ LET v == validate_backup(archive)
         entries == v.metadata.volumes
         filtered == FilterEntries(entries, selection)
     IN IF v.error # NoError THEN
          /\ rerr' = v.error
          /\ rpc' = "failed"
          /\ UNCHANGED volumes_to_restore
        ELSE IF selection # <<>> /\ SelectionRejected(entries, selection) THEN
          /\ rerr' = SelectionError(Range(selection)
                                    \ {e.name : e \in Range(filtered)})
          /\ rpc' = "failed"
          /\ UNCHANGED volumes_to_restore
        ELSE
          /\ volumes_to_restore' =
               IF selection # <<>> THEN filtered ELSE entries
          /\ rpc' = IF volumes_to_restore' = <<>> THEN "done" ELSE "check"
          /\ UNCHANGED rerr
  /\ UNCHANGED <<archive, selection, force, ri, staged, pending, rtlog>>
  /\ UNCHANGED <<bvars, rtvars>>

\* ----------------------------------------------------- restore_volume
\* Line 99: the existing volume makes the restore fail
ConflictRaised_never(exists, forced) == FALSE

ConflictRaised(exists, forced) == exists /\ ~forced

\* Lines 96-105: look the volume up; fail when it exists and force is not
\* set, remove it when force is set.
CheckExisting ==
  /\ rpc = "check"
  /\ LET name == CurrentVolume.name
         exists == rtVolumes[name].exists
     IN IF ConflictRaised(exists, force) THEN
          /\ rerr' = ValueError("already exists. Use --force to overwrite",
                                name)
          /\ rpc' = "failed"
          /\ UNCHANGED <<rtVolumes, rtlog>>
        ELSE IF exists /\ InUse(name) THEN
          /\ rerr' = DockerError("volume is in use", name)
          /\ rpc' = "failed"
          /\ UNCHANGED <<rtVolumes, rtlog>>
        ELSE IF exists THEN
          /\ rtVolumes' = [rtVolumes EXCEPT ![name] = NoVolume]
          /\ rtlog' = Append(rtlog, Event("volume.remove", name))
          /\ rpc' = "create"
          /\ UNCHANGED rerr
        ELSE
          /\ rpc' = "create"
          /\ UNCHANGED <<rtVolumes, rtlog, rerr>>
  /\ UNCHANGED <<archive, selection, force, volumes_to_restore, ri, staged,
                 pending, helpers>>
  /\ UNCHANGED bvars

\* Line 109: client.volumes.create(volume_name), outside the try block.
CreateVolume ==
  /\ rpc = "create"
  /\ \E ok \in BOOLEAN :
       IF ok THEN
         /\ rtVolumes' = [rtVolumes EXCEPT ![CurrentVolume.name] =
                            [exists |-> TRUE, tree |-> {}]]
         /\ rtlog' = Append(rtlog, Event("volumes.create", CurrentVolume.name))
         /\ rpc' = "run"
         /\ UNCHANGED rerr
       ELSE
         /\ rerr' = DockerError("create failed", CurrentVolume.name)
         /\ rpc' = "failed"
         /\ UNCHANGED <<rtVolumes, rtlog>>
  /\ UNCHANGED <<archive, selection, force, volumes_to_restore, ri, staged,
                 pending, helpers>>
  /\ UNCHANGED bvars

\* Lines 114-119: client.containers.run(..., detach=True).  When it raises
\* the runtime may have created the container already.
RunHelper ==
  /\ rpc = "run"
  /\ \E ok \in BOOLEAN, left \in BOOLEAN :
       IF ok THEN
         /\ left = TRUE
         /\ helpers' = helpers \cup {RestoreHelper(CurrentVolume.name)}
         /\ rtlog' = Append(rtlog, Event("containers.run", CurrentVolume.name))
         /\ rpc' = "extract"
         /\ UNCHANGED pending
       ELSE
         /\ helpers' = IF left
                       THEN helpers \cup {RestoreHelper(CurrentVolume.name)}
                       ELSE helpers
         /\ rtlog' = IF left
                     THEN Append(rtlog, Event("containers.run",
                                              CurrentVolume.name))
                     ELSE rtlog
         /\ pending' = [step |-> "helper start"]
         /\ rpc' = "cleanup"
  /\ UNCHANGED <<archive, selection, force, volumes_to_restore, ri, staged,
                 rerr, rtVolumes>>
  /\ UNCHANGED bvars

\* Lines 123-194: open the archive, find the prefix of the volume and
\* extract the members below it into temp_volume_dir.
ExtractVolume ==
  /\ rpc = "extract"
  /\ \E io_ok \in BOOLEAN :
       LET volume_prefix == ResolvePrefix(archive.members, CurrentVolume.name,
                                          ArchivePathOf(CurrentVolume))
       IN IF ~archive.gz \/ ~archive.complete \/ ~io_ok
             \/ volume_prefix = <<>> THEN
            /\ pending' = [step |-> "extraction"]
            /\ rpc' = "teardown"
            /\ UNCHANGED staged
          ELSE
            /\ staged' = Extracted(archive.members, volume_prefix)
            /\ rpc' = "copy"
            /\ UNCHANGED pending
  /\ UNCHANGED <<archive, selection, force, volumes_to_restore, ri, rerr,
                 rtlog, rtvars>>
  /\ UNCHANGED bvars

\* Lines 197-204: docker cp temp_volume_dir/. container:/volume/
CopyIntoVolume ==
  /\ rpc = "copy"
  /\ \E ok \in BOOLEAN :
       IF ok THEN
         /\ rtVolumes' = [rtVolumes EXCEPT ![CurrentVolume.name].tree = staged]
         /\ UNCHANGED pending
       ELSE
         /\ pending' = [step |-> "copy"]
         /\ UNCHANGED rtVolumes
  /\ rpc' = "teardown"
  /\ staged' = {}
  /\ UNCHANGED <<archive, selection, force, volumes_to_restore, ri, rerr,
                 rtlog, helpers>>
  /\ UNCHANGED bvars

\* Lines 206-209: finally: container.stop(); container.remove().  When one
\* of them raises the container is still there.  A KeyboardInterrupt in
\* flight is not an Exception: it leaves restore_volume past the except
\* clause of line 211.
TeardownHelper ==
  /\ rpc = "teardown"
  /\ \E ok \in BOOLEAN :
       IF ok THEN
         /\ helpers' = helpers \ {RestoreHelper(CurrentVolume.name)}
         /\ IF pending = [step |-> "interrupt"] THEN
              /\ rpc' = "interrupted"
              /\ UNCHANGED <<ri, rtlog, pending>>
            ELSE IF pending # NoPending THEN
              /\ rpc' = "cleanup"
              /\ UNCHANGED <<ri, rtlog, pending>>
            ELSE
              \* line 217: restored successfully; next volume of the loop
              /\ rtlog' = Append(rtlog, Event("restored", CurrentVolume.name))
              /\ ri' = ri + 1
              /\ rpc' = IF ri + 1 > Len(volumes_to_restore)
                        THEN "done" ELSE "check"
              /\ UNCHANGED pending
       ELSE
         /\ pending' = [step |-> "helper teardown"]
         /\ rpc' = "cleanup"
         /\ UNCHANGED <<helpers, ri, rtlog>>
  /\ UNCHANGED <<archive, selection, force, volumes_to_restore, staged, rerr,
                 rtVolumes>>
  /\ UNCHANGED bvars

\* Lines 211-215: except Exception: volume.remove(); raise ValueError.
\* volume.remove() raises when a container still mounts the volume.
CleanupVolume ==
  /\ rpc = "cleanup"
  /\ IF InUse(CurrentVolume.name) THEN
       /\ rerr' = DockerError("volume is in use", CurrentVolume.name)
       /\ UNCHANGED <<rtVolumes, rtlog>>
     ELSE
       /\ rtVolumes' = [rtVolumes EXCEPT ![CurrentVolume.name] = NoVolume]
       /\ rtlog' = Append(rtlog, Event("volume.remove", CurrentVolume.name))
       /\ rerr' = ValueError("Failed to restore volume", CurrentVolume.name)
  /\ rpc' = "failed"
  /\ UNCHANGED <<archive, selection, force, volumes_to_restore, ri, staged,
                 pending, helpers>>
  /\ UNCHANGED bvars

\* The user interrupts the restore (KeyboardInterrupt) while a volume is in
\* flight: before the helper runs (line 114), or inside the inner try
\* (lines 123-204), whose finally clause then runs.
Interrupt ==
  /\ rpc \in {"run", "extract", "copy"}
  /\ IF rpc = "run"
     THEN rpc' = "interrupted" /\ UNCHANGED pending
     ELSE rpc' = "teardown" /\ pending' = [step |-> "interrupt"]
  /\ UNCHANGED <<archive, selection, force, volumes_to_restore, ri, staged,
                 rerr, rtlog, rtvars>>
  /\ UNCHANGED bvars

\* ---------------------------------------------------- restore: the inputs
\* The member names the archives given to restore are made of.
MemberPaths ==
  {<<METADATA_JSON>>,
   <<VOLUMES, <<"v">>, <<"f">>>>, <<DOT, VOLUMES, <<"v">>, <<"f">>>>,
   <<VOLUMES, <<"W">>, <<"g">>>>, <<VOLUMES, <<"w">>, <<"g">>>>}

\* Member lists: at least one member, no member twice.
MemberSeqs ==
  {m \in SeqsUpTo(MemberPaths, MaxMembers) \ {<<>>} :
     \A i, j \in 1..Len(m) : i # j => m[i] # m[j]}

MetadataEntries ==
  {[name |-> n, service |-> <<"s">>, target |-> <<"/t">>,
    is_external |-> FALSE] : n \in RestoreNames}

Metadatas ==
  {NoMetadata} \cup
  {[has_volumes |-> TRUE, volumes |-> e] :
     e \in SeqsUpTo(MetadataEntries, MaxEntries)}

RestoreArchives ==
  [exists : {TRUE}, complete : {TRUE}, gz : {TRUE}, members : MemberSeqs,
   json : Metadatas, blobs : {{}}]

\* The volume a project left in the runtime before the restore.
OldTree == {<< <<"old">> >>}

\* The build variables while only a restore runs.
BuildIdle ==
  /\ compose = [path |-> compose_file, doc |-> <<>>, volumes |-> <<>>]
  /\ listed = NotListed
  /\ cli = NoCommand
  /\ volumes_to_backup = {}
  /\ ssh_target = FALSE
  /\ compress = TRUE
  /\ bpc = "idle"
  /\ named_volumes = <<>>
  /\ metadata = NoMetadata
  /\ bi = 1
  /\ backup_dir = NoDir
  /\ final_archive = NoArchive
  /\ remote_file = NoArchive
  /\ berr = NoError
  /\ captured = <<>>
  /\ validated = NotValidated

\* restore_backup(backup_path, volumes, force) on an archive, or
\* restore_volume(backup_path, volume_metadata, force) called directly.
RestoreInit ==
  /\ BuildIdle
  /\ archive \in RestoreArchives
  /\ force \in BOOLEAN
  /\ \/ /\ rpc = "start"
        /\ selection \in SeqsUpTo({<<"v">>, AbsentName}, MaxSelected)
        /\ volumes_to_restore = <<>>
     \/ /\ rpc = "check"
        /\ selection = <<>>
        /\ archive.json = NoMetadata
        /\ volumes_to_restore \in {<<e>> : e \in MetadataEntries}
  /\ ri = 1
  /\ staged = {}
  /\ pending = NoPending
  /\ rerr = NoError
  /\ rtlog = <<>>
  /\ helpers = {}
  /\ \E existing \in SUBSET RestoreNames :
       rtVolumes = [n \in RuntimeNames |->
                      IF n \in existing
                      THEN [exists |-> TRUE, tree |-> OldTree]
                      ELSE NoVolume]

RestoreNext ==
  \/ RestoreBackupStart
  \/ CheckExisting
  \/ CreateVolume
  \/ RunHelper
  \/ ExtractVolume
  \/ CopyIntoVolume
  \/ TeardownHelper
  \/ CleanupVolume

RestoreSpec == RestoreInit /\ [][RestoreNext]_vars

\* ------------------------------------------------- restore, interrupted
InterruptNext ==
  \/ RestoreNext
  \/ Interrupt

InterruptSpec == RestoreInit /\ [][InterruptNext]_vars

\* ------------------------------------------------ backup, then restore
\* tests/test_integration.py, test_restore_workflow: after the backup the
\* volumes of the project are removed and the produced file is restored
\* with --force.
RemoveVolumesAndRestore ==
  /\ bpc = "done"
  /\ rpc = "idle"
  /\ rtVolumes' = [n \in RuntimeNames |-> NoVolume]
  /\ archive' = Produced
  /\ force' = TRUE
  /\ rpc' = "start"
  /\ UNCHANGED <<selection, volumes_to_restore, ri, staged, pending, rerr,
                 rtlog, helpers>>
  /\ UNCHANGED bvars

WorkflowNext ==
  \/ BuildNext
  \/ RemoveVolumesAndRestore
  \/ RestoreNext

WorkflowSpec == BuildInit /\ [][WorkflowNext]_vars

\* ------------------------------------------------- the backup command
\* cli.py 47-83: parse, filter by the -v options, keep the named
\* declarations; without any the command prints and returns; otherwise it
\* asks for confirmation and calls create_backup.
BackupCommand ==
  /\ cli.command = "backup"
  /\ ~cli.exited
  /\ bpc = "cli"
  /\ LET volumes_list ==
           FilterVolumes(parse_compose_file(compose.path, compose.doc,
                                            compose.volumes),
                         volumes_to_backup)
         named == SelectSeq(volumes_list, LAMBDA v : v.type = "named")
     IN IF named = <<>>
        THEN /\ cli' = [cli EXCEPT !.exited = TRUE, !.exit_code = 0]
             /\ UNCHANGED bpc
        ELSE \E confirmed \in BOOLEAN :
               IF confirmed
               THEN bpc' = "start" /\ UNCHANGED cli
               ELSE /\ cli' = [cli EXCEPT !.exited = TRUE, !.exit_code = 0]
                    /\ UNCHANGED bpc
  /\ UNCHANGED <<compose, listed, volumes_to_backup, ssh_target, compress,
                 named_volumes, metadata, bi, backup_dir, final_archive,
                 remote_file, berr, captured, validated, rtvars, rsvars>>

\* cli.py 85-93: create_backup returned (exit status 0) or raised
\* (click.Abort, exit status 1).
BackupCommandEnd ==
  /\ cli.command = "backup"
  /\ ~cli.exited
  /\ bpc \in {"done", "failed"}
  /\ cli' = [cli EXCEPT !.exited = TRUE,
                        !.exit_code = IF bpc = "done" THEN 0 ELSE 1]
  /\ UNCHANGED <<compose, listed, volumes_to_backup, ssh_target, compress,
                 bpc, named_volumes, metadata, bi, backup_dir, final_archive,
                 remote_file, berr, captured, validated, rtvars, rsvars>>

\* The backup command on a compose file, with or without -v options.
BackupCommandInit ==
  /\ compose \in [path : {compose_file}, doc : Docs, volumes : TopLevels]
  /\ listed = NotListed
  /\ cli = [command |-> "backup", exited |-> FALSE, exit_code |-> 0]
  /\ volumes_to_backup \in Wanted
  /\ ssh_target = FALSE
  /\ compress \in BOOLEAN
  /\ bpc = "cli"
  /\ named_volumes = <<>>
  /\ metadata = NoMetadata
  /\ bi = 1
  /\ backup_dir = NoDir
  /\ final_archive = NoArchive
  /\ remote_file = NoArchive
  /\ berr = NoError
  /\ captured = <<>>
  /\ validated = NotValidated
  /\ rtVolumes = [n \in RuntimeNames |->
                    IF n \in NamedComposeNames(compose)
                    THEN [exists |-> TRUE, tree |-> ProjectTree(n)]
                    ELSE NoVolume]
  /\ helpers = {}
  /\ RestoreIdle

BackupCommandNext ==
  \/ BackupCommand
  \/ BuildStart
  \/ CaptureVolume
  \/ CopyMetadata
  \/ CreateFinalArchive
  \/ RemoveStagingAndReturn
  \/ BackupCommandEnd

BackupCommandSpec == BackupCommandInit /\ [][BackupCommandNext]_vars

\* ---------------------------------------- compose: the inputs and `list`
\* cli.py list: volumes = parse_compose_file(compose_file)
ListVolumes ==
  /\ ~listed.done
  /\ listed' = [done |-> TRUE,
                volumes |-> parse_compose_file(compose.path, compose.doc,
                                               compose.volumes)]
  /\ UNCHANGED <<compose, volumes_to_backup, ssh_target, compress, bpc,
                 named_volumes, metadata, bi, backup_dir, final_archive,
                 remote_file, berr, captured, validated, rtvars, rsvars>>
  /\ UNCHANGED cli

\* The directories a compose file can be in.
ProjectDirs == {<<"p">>, <<"q">>}
ComposePaths == {<<d, COMPOSE_YML>> : d \in ProjectDirs}

\* The i-th mount of a document is that of the i-th service.
ServiceAt(i) == <<"s", ToString(i)>>

\* Compose documents whose mounts take every shape, one mount per service.
AllDocs ==
  {[i \in 1..Len(d) |->
      [service |-> ServiceAt(i), source |-> d[i][1], target |-> <<"/t">>,
       form |-> d[i][2]]] :
     d \in SeqsUpTo(Sources \X (MountForms \cup OtherForms), MaxMounts)}

ComposeInit ==
  /\ compose \in [path : ComposePaths, doc : AllDocs, volumes : TopLevels]
  /\ listed = NotListed
  /\ cli = NoCommand
  /\ volumes_to_backup \in Wanted
  /\ ssh_target = FALSE
  /\ compress = TRUE
  /\ bpc = "start"
  /\ named_volumes = <<>>
  /\ metadata = NoMetadata
  /\ bi = 1
  /\ backup_dir = NoDir
  /\ final_archive = NoArchive
  /\ remote_file = NoArchive
  /\ berr = NoError
  /\ captured = <<>>
  /\ validated = NotValidated
  /\ rtVolumes = [n \in RuntimeNames |-> NoVolume]
  /\ helpers = {}
  /\ RestoreIdle

ComposeNext ==
  \/ ListVolumes
  \/ BuildStart

ComposeSpec == ComposeInit /\ [][ComposeNext]_vars

\* ---------------------------------------------------- properties: build
\* The tree an archive holds at its root under volumes/<name>/ (with or
\* without a leading ./), prefix stripped.
TreeUnder(a, name) ==
  {SubSeq(m, 3, Len(m)) :
     m \in {x \in Range(a.members) : StartsWith(x, <<VOLUMES, name>>)}}
  \cup
  {SubSeq(m, 4, Len(m)) :
     m \in {x \in Range(a.members) : StartsWith(x, <<DOT, VOLUMES, name>>)}}

HasRootMetadata(a) ==
  \E m \in Range(a.members) : m = <<METADATA_JSON>> \/ m = <<DOT, METADATA_JSON>>

HasVolumeDir(a, name) ==
  \E m \in Range(a.members) :
    \/ m = <<VOLUMES, name>> \/ m = <<DOT, VOLUMES, name>>
    \/ StartsWith(m, <<VOLUMES, name>>) \/ StartsWith(m, <<DOT, VOLUMES, name>>)

\* The archive layout of the format: metadata.json at the root and, for
\* every volume entry of the metadata, volumes/<name>/ holding the tree of
\* the runtime volume of that name.
ArchiveLayout(a) ==
  /\ HasRootMetadata(a)
  /\ \A e \in Range(a.json.volumes) :
       /\ HasVolumeDir(a, e.name)
       /\ TreeUnder(a, e.name) = rtVolumes[e.name].tree

\* The qualified names of the deduplicated Named volumes given to build.
DedupQualifiedNames ==
  {v.compose_name :
     v \in Range(DedupNamed(FilterVolumes(
                   parse_compose_file(compose.path, compose.doc,
                                      compose.volumes),
                   volumes_to_backup), {}))}

\* C1: validate applied to the archive a build produced succeeds and
\* returns metadata whose volume names are the qualified names of the
\* deduplicated Named volumes given to build.
C1_RoundTrip ==
  validated.done =>
    /\ validated.error = NoError
    /\ {e.name : e \in Range(validated.metadata.volumes)} = DedupQualifiedNames

\* C7: in a local build, a failed capture is the last capture started, no
\* archive exists at the final path, and the error raised is the
\* BackupError naming the qualified name of the volume whose capture
\* failed.
C7_CaptureFailureAborts ==
  \A i \in 1..Len(captured) :
    (~ssh_target /\ ~captured[i].ok) =>
      /\ i = Len(captured)
      /\ bpc = "failed"
      /\ ~final_archive.exists
      /\ berr = BackupError("Failed to backup volume", captured[i].vol)
      /\ captured[i].vol = named_volumes[i].compose_name

\* C7 witness: the capture of the first of two volumes failed.
C7_Witness ==
  /\ ~ssh_target
  /\ bpc = "failed"
  /\ Len(named_volumes) = 2
  /\ Len(captured) = 1
  /\ ~captured[1].ok
  /\ named_volumes[1].compose_name # named_volumes[1].name

\* C8: after a build that failed nothing it created remains: neither the
\* final archive, nor the staging directory, nor a file at the remote path.
C8_NothingLeftAfterFailure ==
  bpc = "failed" =>
    /\ ~final_archive.exists
    /\ ~backup_dir.exists
    /\ ~remote_file.exists

\* C9: the archive of a successful local build (metadata copied, tar
\* completed) has the layout of the format.
C9_LocalArchiveLayout ==
  (bpc = "done" /\ ~ssh_target /\ final_archive.complete
   /\ final_archive.json = metadata) => ArchiveLayout(final_archive)

\* C10: the stream of a successful remote build has the layout of the
\* format, the volume directories being named by the qualified names of
\* the metadata entries.
C10_RemoteStreamLayout ==
  (bpc = "done" /\ ssh_target) => ArchiveLayout(remote_file)

\* -------------------------------------------------- properties: restore
\* The archive has a member below the directory of the volume, under its
\* exact name or one of the tolerated variants.
HasSubtree(members, name) ==
  \E m \in Range(members), k \in 1..Len(possible_prefixes(name)) :
    StartsWith(m, possible_prefixes(name)[k])

\* C2: when restoring a volume failed at a step after the volume was
\* created, the volume is gone and the error raised is the restore error
\* naming it.
C2_FailureRemovesVolume ==
  (rpc = "failed" /\ pending # NoPending) =>
    /\ ~rtVolumes[CurrentVolume.name].exists
    /\ rerr = ValueError("Failed to restore volume", CurrentVolume.name)

\* C3: a volume is reported restored only if the archive holds entries
\* below its directory (exact name or tolerated variant).
C3_MissingSubtreeFails ==
  \A i \in 1..Len(rtlog) :
    rtlog[i].op = "restored" => HasSubtree(archive.members, rtlog[i].vol)

\* C4: after a successful restore of an archive validate accepts, every
\* restored volume holds exactly the entries of its volumes/<name>/
\* subtree, prefix stripped.
C4_RestoredSubtree ==
  (rpc = "done" /\ validate_backup(archive).error = NoError) =>
    \A e \in Range(volumes_to_restore) :
      /\ rtVolumes[e.name].exists
      /\ rtVolumes[e.name].tree = TreeUnder(archive, e.name)

\* C5: with force unset, restoring a volume that exists fails with the
\* conflict error naming it and changes neither the volumes nor the
\* helper containers of the runtime.
C5_ConflictIsHarmless ==
  [][(rpc = "check" /\ rtVolumes[CurrentVolume.name].exists /\ ~force) =>
       /\ rpc' = "failed"
       /\ rerr' = ValueError("already exists. Use --force to overwrite",
                             CurrentVolume.name)
       /\ rtVolumes' = rtVolumes
       /\ helpers' = helpers
       /\ rtlog' = rtlog]_vars

\* C5 witness: the restore failed on an existing volume, which still holds
\* what it held.
C5_Witness ==
  /\ rpc = "failed"
  /\ ~force
  /\ rerr.msg = "already exists. Use --force to overwrite"
  /\ rtVolumes[rerr.vol] = [exists |-> TRUE, tree |-> OldTree]
  /\ helpers = {}

\* The selected names no metadata entry has.
AbsentSelected ==
  Range(selection) \ {e.name : e \in Range(archive.json.volumes)}

\* C6: when a selected name is absent from the metadata, restore_backup
\* fails with the selection error listing the absent names before any
\* runtime operation.
C6_AbsentSelectionRejected ==
  (rpc \notin {"start", "idle"} /\ validate_backup(archive).error = NoError
   /\ AbsentSelected # {}) =>
    /\ rpc = "failed"
    /\ rerr = SelectionError(AbsentSelected)
    /\ rtlog = <<>>

\* --------------------------------------- validate: the inputs and the call
\* validate_backup(backup_path) on a file given by the user.
ValidateGiven ==
  /\ bpc = "idle"
  /\ rpc = "idle"
  /\ ~validated.done
  /\ validated' = [done |-> TRUE] @@ validate_backup(archive)
  /\ UNCHANGED <<compose, listed, cli, volumes_to_backup, ssh_target,
                 compress, bpc, named_volumes, metadata, bi, backup_dir,
                 final_archive, remote_file, berr, captured, rtvars, rsvars>>

\* Member lists of any layout, the empty one included.
AnyMemberSeqs ==
  {m \in SeqsUpTo(MemberPaths \cup {<<DOT, METADATA_JSON>>}, MaxMembers) :
     \A i, j \in 1..Len(m) : i # j => m[i] # m[j]}

\* Files given to validate: no file, or a tar file, gzip-compressed or
\* not; a metadata.json member has content, parsed in json.
GivenArchives ==
  {NoArchive} \cup
  {a \in [exists : {TRUE}, complete : {TRUE}, gz : BOOLEAN,
          members : AnyMemberSeqs, json : Metadatas, blobs : {{}}] :
     (\A i \in 1..Len(a.members) :
        a.members[i] \notin {<<METADATA_JSON>>, <<DOT, METADATA_JSON>>})
       => a.json = NoMetadata}

ValidateInit ==
  /\ BuildIdle
  /\ archive \in GivenArchives
  /\ selection = <<>>
  /\ force = FALSE
  /\ rpc = "idle"
  /\ volumes_to_restore = <<>>
  /\ ri = 1
  /\ staged = {}
  /\ pending = NoPending
  /\ rerr = NoError
  /\ rtlog = <<>>
  /\ helpers = {}
  /\ rtVolumes = [n \in RuntimeNames |-> NoVolume]

ValidateNext == ValidateGiven

ValidateSpec == ValidateInit /\ [][ValidateNext]_vars

\* ------------------------------------------------- properties: helpers
\* C14: when the restore of a volume has returned or raised, by whatever
\* path, no helper container exists.
C14_NoRestoreHelperLeft ==
  rpc \in {"done", "failed"} => helpers = {}

\* C15: when a build has returned or raised, by whatever path, no helper
\* container exists.
C15_NoBackupHelperLeft ==
  bpc \in {"done", "failed"} => helpers = {}

\* C16: when an interrupt has ended the restore of a volume, neither its
\* helper container nor the volume created for it exists.
C16_InterruptCleansUp ==
  rpc = "interrupted" =>
    /\ helpers = {}
    /\ ~rtVolumes[CurrentVolume.name].exists

\* ------------------------------------------------ properties: workflows
\* A local build all of whose steps succeeded.
CleanLocalBuild ==
  /\ bpc = "done"
  /\ ~ssh_target
  /\ final_archive.complete
  /\ final_archive.json = metadata

\* C13: after a successful local backup and the removal of the volumes,
\* the restore with force of the produced file succeeds and every volume
\* of the metadata exists again, unless an operation of the runtime failed
\* during the restore.
C13_BackupThenRestore ==
  (CleanLocalBuild /\ compress /\ rpc \in {"done", "failed"}) =>
    \/ /\ rpc = "done"
       /\ \A e \in Range(metadata.volumes) : rtVolumes[e.name].exists
    \/ /\ rpc = "failed"
       /\ \/ rerr.type = "docker.errors.APIError"
          \/ rerr.msg = "Failed to restore volume"

\* The last component of a path ends in .tar.gz.
EndsWithTarGz(name) == name # <<>> /\ name[Len(name)] = ".tar.gz"

\* C20: the archive of a compressed local backup unpacks to one top-level
\* directory that holds metadata.json, and every volume entry of that
\* metadata has an archive field ending in .tar.gz that names a file of
\* the directory.
C20_ArchiveFieldPerVolume ==
  (CleanLocalBuild /\ compress) =>
    LET tops == {m[1] : m \in Range(final_archive.members)}
    IN /\ Cardinality(tops) = 1
       /\ \A top \in tops :
            /\ <<top, METADATA_JSON>> \in Range(final_archive.members)
            /\ \A e \in Range(final_archive.json.volumes) :
                 /\ "archive" \in DOMAIN e
                 /\ EndsWithTarGz(e.archive)
                 /\ <<top, e.archive>> \in Range(final_archive.members)

\* ------------------------------------------------- properties: validate
\* The four structural checks of the format.
HasVolumesSection(a) == a.json.has_volumes

HasVolumeFiles(a) ==
  \E m \in Range(a.members) :
    StartsWith(m, <<VOLUMES>>) \/ StartsWith(m, <<DOT, VOLUMES>>)

\* The positions of the metadata volumes that have no directory.
WithoutDirectory(a) ==
  {i \in 1..Len(a.json.volumes) :
     \A m \in Range(a.members) :
       /\ ~StartsWith(m, <<VOLUMES, a.json.volumes[i].name>>)
       /\ ~StartsWith(m, <<DOT, VOLUMES, a.json.volumes[i].name>>)}

\* C11: validate applies the four structural checks in order (metadata
\* file present, volumes section present, some member under volumes/,
\* every metadata volume has a directory) and reports the error of the
\* earliest violated one; the fourth names the first metadata volume, in
\* metadata order, that has no directory.
C11_EarliestCheckReported ==
  (validated.done /\ archive.exists /\ archive.gz) =>
    LET a == archive
        lacking == WithoutDirectory(a)
    IN IF ~HasRootMetadata(a)
       THEN validated.error =
              ValueError("Metadata file not found in backup", NoName)
       ELSE IF ~HasVolumesSection(a)
       THEN validated.error =
              ValueError("Invalid metadata: missing volumes section", NoName)
       ELSE IF ~HasVolumeFiles(a)
       THEN validated.error =
              ValueError("No volume files found in backup", NoName)
       ELSE IF lacking # {}
       THEN \E i \in lacking :
              /\ \A j \in lacking : i <= j
              /\ validated.error =
                   ValueError("Volume directory not found", a.json.volumes[i].name)
       ELSE /\ validated.error = NoError
            /\ validated.metadata = a.json

\* C11 witness: two metadata volumes of different names lack a directory
\* and the error names the first.
C11_Witness ==
  /\ validated.done
  /\ archive.gz
  /\ HasVolumeFiles(archive)
  /\ WithoutDirectory(archive) = {1, 2}
  /\ archive.json.volumes[1].name # archive.json.volumes[2].name
  /\ validated.error.msg = "Volume directory not found"
  /\ validated.error.vol = archive.json.volumes[1].name

\* C12: a tar file that is not gzip-compressed and has the layout of the
\* format is accepted by validate, which returns its metadata.
C12_PlainTarAccepted ==
  (/\ validated.done
   /\ archive.exists /\ archive.complete /\ ~archive.gz
   /\ HasRootMetadata(archive)
   /\ HasVolumesSection(archive)
   /\ HasVolumeFiles(archive)
   /\ WithoutDirectory(archive) = {}) =>
    /\ validated.error = NoError
    /\ validated.metadata = archive.json

\* -------------------------------------------------- properties: compose
\* The positions of the parsed declarations that are named and requested.
RequestedNamed(parsed) ==
  {i \in 1..Len(parsed) :
     /\ parsed[i].type = "named"
     /\ volumes_to_backup # {} => parsed[i].name \in volumes_to_backup}

\* The first of these positions that declares the logical name n.
FirstDeclaration(parsed, n) ==
  CHOOSE i \in RequestedNamed(parsed) :
    /\ parsed[i].name = n
    /\ \A j \in RequestedNamed(parsed) : parsed[j].name = n => i <= j

\* C17: the metadata volume list of a build has exactly one entry per
\* distinct logical name among the named declarations (of the requested
\* subset when one is given), taken from the first declaration of that
\* name and never from a bind declaration; the build fails with the
\* no-volumes error exactly when that list would be empty.
C17_OneEntryPerNamedVolume ==
  bpc # "start" =>
    LET parsed == parse_compose_file(compose.path, compose.doc, compose.volumes)
        names == {parsed[i].name : i \in RequestedNamed(parsed)}
    IN /\ bpc = "failed" <=> names = {}
       /\ bpc = "failed" =>
            /\ berr.type = "BackupError"
            /\ berr.msg \in {"No volumes to backup", "No named volumes to backup"}
       /\ bpc # "failed" =>
            /\ Len(metadata.volumes) = Cardinality(names)
            /\ Len(named_volumes) = Cardinality(names)
            /\ \A n \in names :
                 \E k \in 1..Len(metadata.volumes) :
                   LET first == parsed[FirstDeclaration(parsed, n)]
                   IN /\ named_volumes[k] = first
                      /\ metadata.volumes[k] =
                           [name |-> first.compose_name,
                            service |-> first.service,
                            target |-> first.target,
                            is_external |-> first.is_external]

\* C17 witness: two services declare the same named volume, and the build
\* lists it once, for the first of them.
C17_Witness ==
  /\ bpc = "capture"
  /\ Len(compose.doc) = 2
  /\ compose.doc[1].source = compose.doc[2].source
  /\ compose.doc[1].form = "long_volume"
  /\ compose.doc[2].form = "long_volume"
  /\ Len(metadata.volumes) = 1
  /\ metadata.volumes[1].service = ServiceAt(1)

\* The explicit name of the top-level entry of a logical name, if any.
ExplicitNameOf(n) ==
  IF n \in DOMAIN compose.volumes THEN compose.volumes[n].name ELSE NoName

\* C18: the qualified name of a declaration is the explicit name of its
\* top-level entry when it has one, "{projectName}_{logicalName}" when it
\* has none, and the source itself for a bind mount; with the compose
\* file in another directory, only the qualified names of the named
\* volumes without an explicit name differ.
C18_QualifiedName ==
  listed.done =>
    /\ \A i \in 1..Len(listed.volumes) :
         LET v == listed.volumes[i] IN
         /\ v.type = "bind" => v.compose_name = v.name
         /\ (v.type = "named" /\ ExplicitNameOf(v.name) # NoName) =>
              v.compose_name = ExplicitNameOf(v.name)
         /\ (v.type = "named" /\ ExplicitNameOf(v.name) = NoName) =>
              v.compose_name =
                compose.path[Len(compose.path) - 1] \o <<"_">> \o v.name
    /\ \A moved_path \in ComposePaths :
         LET moved == parse_compose_file(moved_path, compose.doc, compose.volumes)
         IN /\ Len(moved) = Len(listed.volumes)
            /\ \A i \in 1..Len(moved) :
                 LET v == listed.volumes[i] IN
                 /\ moved[i] = [v EXCEPT !.compose_name = moved[i].compose_name]
                 /\ moved[i].compose_name # v.compose_name <=>
                      /\ moved_path # compose.path
                      /\ v.type = "named"
                      /\ ExplicitNameOf(v.name) = NoName

\* C18 witness: the listed document declares a named volume with an
\* explicit name and one without.
C18_Witness ==
  /\ listed.done
  /\ \E i, j \in 1..Len(listed.volumes) :
       /\ listed.volumes[i].type = "named"
       /\ listed.volumes[j].type = "named"
       /\ listed.volumes[i].compose_name = ExplicitNameOf(listed.volumes[i].name)
       /\ ExplicitNameOf(listed.volumes[j].name) = NoName

\* C19: parse returns one declaration for each mount of each service, named
\* if its source is a key of the top-level volumes section or, in long
\* form, its type is volume, and bind in every other case.
C19_OneDeclarationPerMount ==
  listed.done =>
    /\ Len(listed.volumes) = Len(compose.doc)
    /\ \A i \in 1..Len(compose.doc) :
         listed.volumes[i].type =
           IF \/ compose.doc[i].source \in DOMAIN compose.volumes
              \/ compose.doc[i].form = "long_volume"
           THEN "named" ELSE "bind"

\* The mounts that have a source and a target in short form, or the type
\* volume or bind in long form.
DeclaringMounts(doc) ==
  SelectSeq(doc, LAMBDA m : m.form \in {"short", "long_volume", "long_bind"})

\* C19, amended: parse returns one declaration, in order, for each short
\* mount with a source and a target and each long mount of type volume or
\* bind, and none for a mount of another shape; a short mount is named if
\* its source is a key of the top-level volumes section and bind
\* otherwise, a long mount is named if its type is volume and bind if its
\* type is bind.
C19_OneDeclarationPerDeclaringMount ==
  listed.done =>
    LET kept == DeclaringMounts(compose.doc)
    IN /\ Len(listed.volumes) = Len(kept)
       /\ \A i \in 1..Len(kept) :
            /\ listed.volumes[i].name = kept[i].source
            /\ listed.volumes[i].service = kept[i].service
            /\ listed.volumes[i].target = kept[i].target
            /\ kept[i].form = "short" =>
                 listed.volumes[i].type =
                   IF kept[i].source \in DOMAIN compose.volumes
                   THEN "named" ELSE "bind"
            /\ kept[i].form = "long_volume" => listed.volumes[i].type = "named"
            /\ kept[i].form = "long_bind" => listed.volumes[i].type = "bind"

\* C19 witness: a document with a mount that yields no declaration and a
\* long bind mount whose source is a key of the top-level section.
C19_Witness ==
  /\ listed.done
  /\ Len(compose.doc) = 2
  /\ compose.doc[1].form \in OtherForms
  /\ compose.doc[2].form = "long_bind"
  /\ compose.doc[2].source \in DOMAIN compose.volumes
  /\ Len(listed.volumes) = 1
  /\ listed.volumes[1].type = "bind"

\* ------------------------------------------------- properties: variants
\* The variants of a volume name, in the order they are tried.
Variants(volume_name) ==
  <<Replace(volume_name, "-", "_"), Lower(volume_name), Stripped(volume_name)>>

\* The positions of the variants whose directory exists in the archive.
ExistingVariants(members, volume_name) ==
  {k \in 1..Len(Variants(volume_name)) :
     VolumeMembers(members, Variants(volume_name)[k]) # <<>>}

\* C22: a restore of one volume that succeeds although no member lies
\* under the exact volumes/<name>/ prefix has extracted the subtree of the
\* first variant (hyphens to underscores, lowercase, stripped) whose
\* directory exists in the archive, wherever its members are; when no
\* variant directory exists the restore does not succeed.
C22_FirstExistingVariant ==
  (/\ rpc = "done"
   /\ Len(volumes_to_restore) = 1
   /\ VolumeMembers(archive.members, volumes_to_restore[1].name) = <<>>) =>
    LET name == volumes_to_restore[1].name
        existing == ExistingVariants(archive.members, name)
    IN /\ existing # {}
       /\ \E k \in existing :
            /\ \A j \in existing : k <= j
            /\ rtVolumes[name].tree = TreeUnder(archive, Variants(name)[k])

\* ------------------------------------------------- properties: the loop
\* C23: restore_backup takes the volumes to restore one at a time in
\* metadata order and stops at the first failure: a step of the restore of
\* the i-th volume changes no volume of another name and adds no helper
\* container for one, the index only moves to the next volume, and nothing
\* happens after the failure.
C23_OneVolumeAtATime ==
  [][/\ rpc # "failed"
     /\ (rpc = "start" /\ rpc' = "check") =>
          /\ ri' = 1
          /\ volumes_to_restore' =
               SelectSeq(archive.json.volumes,
                         LAMBDA e : selection = <<>> \/ e.name \in Range(selection))
     /\ rpc \in {"check", "create", "run", "extract", "copy", "teardown",
                 "cleanup"} =>
          /\ ri' \in {ri, ri + 1}
          /\ volumes_to_restore' = volumes_to_restore
          /\ \A j \in 1..Len(volumes_to_restore) :
               LET other == volumes_to_restore[j].name
               IN other # volumes_to_restore[ri].name =>
                    /\ rtVolumes'[other] = rtVolumes[other]
                    /\ RestoreHelper(other) \in helpers'
                         => RestoreHelper(other) \in helpers
                    /\ \A k \in Len(rtlog) + 1 .. Len(rtlog') :
                         rtlog'[k].vol # other]_vars

\* C23 witness: of two volumes of different names the first failed after
\* its volume was created; the second, which existed, is as it was and
\* no operation of the runtime concerned it.
C23_Witness ==
  /\ rpc = "failed"
  /\ Len(volumes_to_restore) = 2
  /\ ri = 1
  /\ volumes_to_restore[1].name # volumes_to_restore[2].name
  /\ \E k \in 1..Len(rtlog) :
       rtlog[k] = Event("volumes.create", volumes_to_restore[1].name)
  /\ \A k \in 1..Len(rtlog) : rtlog[k].vol = volumes_to_restore[1].name
  /\ rtVolumes[volumes_to_restore[2].name] = [exists |-> TRUE, tree |-> OldTree]

\* ----------------------------------------------- properties: force
\* The restore in progress of the volume began by removing the existing
\* volume of that name: the removal is followed by the creation, or by
\* nothing when the creation failed.
ForcedRemoval(name) ==
  \E k \in 1..Len(rtlog) :
    /\ rtlog[k] = Event("volume.remove", name)
    /\ \A j \in k + 1 .. Len(rtlog) : rtlog[j].op # "restored"
    /\ IF k = Len(rtlog) THEN rerr.msg = "create failed"
       ELSE rtlog[k + 1] = Event("volumes.create", name)

\* C24: when a restore with force has removed the existing volume and a
\* later step for that volume failed, no volume of that name exists once
\* the error is raised.
C24_ForcedVolumeGoneAfterFailure ==
  (rpc = "failed" /\ force /\ ForcedRemoval(CurrentVolume.name)) =>
    ~rtVolumes[CurrentVolume.name].exists

\* C25: when a local build has returned, a complete archive exists at the
\* returned path and holds the metadata and the capture of every volume of
\* the metadata.
C25_ReturnedArchiveComplete ==
  (bpc = "done" /\ ~ssh_target) =>
    /\ final_archive.exists
    /\ final_archive.complete
    /\ <<backup_name, METADATA_JSON>> \in Range(final_archive.members)
    /\ final_archive.json = metadata
    /\ \A i \in 1..Len(named_volumes) :
         <<backup_name, TarName(named_volumes[i], compress)>>
           \in Range(final_archive.members)

\* C26: the selection error is raised only when a selected name is absent
\* from the volumes of the metadata.
C26_SelectionErrorOnlyWhenAbsent ==
  (rpc = "failed" /\ rerr.msg = "Volumes not found in backup") =>
    AbsentSelected # {}

\* ------------------------------------------------- properties: commands
\* C21: a backup command that met an error condition, the selection without
\* any named volume included, exits with a non-zero status.
C21_ErrorsExitNonZero ==
  (cli.command = "backup" /\ cli.exited) =>
    /\ bpc = "failed" => cli.exit_code # 0
    /\ DedupQualifiedNames = {} => cli.exit_code # 0


====
